---- MODULE Spec2Model ----
(***************************************************************************)
(* CodeCrossConverter: the archive classifier (file_handler.py), the       *)
(* conversion orchestrator (code_converter.py) and the request handler     *)
(* with output assembly (app.py), as one state machine.                    *)
(*                                                                         *)
(* Strings (paths, file contents, capability responses) are sequences of   *)
(* one-character strings, so that lower(), endswith(), substring tests,    *)
(* basename, suffix and splitext are computed as Python computes them.     *)
(***************************************************************************)
EXTENDS Integers, Sequences, FiniteSets, TLC

(* ------------------------------ bounds -------------------------------- *)
\* longest archive (number of entries) drawn for the classifier
MaxEntries == 3

(* --------------------------- string library --------------------------- *)
\* str.lower() on one character (the letters that occur in the model's paths)
LowerChar(c) ==
    CASE c = "A" -> "a" [] c = "B" -> "b" [] c = "D" -> "d" [] c = "E" -> "e"
      [] c = "G" -> "g" [] c = "I" -> "i" [] c = "K" -> "k" [] c = "L" -> "l"
      [] c = "M" -> "m" [] c = "N" -> "n" [] c = "O" -> "o" [] c = "P" -> "p"
      [] c = "R" -> "r" [] c = "S" -> "s" [] c = "T" -> "t" [] c = "V" -> "v"
      [] c = "W" -> "w" [] c = "X" -> "x"
      [] OTHER -> c

\* str.lower()
Lower(s) == [k \in 1..Len(s) |-> LowerChar(s[k])]

\* str.startswith(p)
StartsWith(s, p) == Len(p) <= Len(s) /\ SubSeq(s, 1, Len(p)) = p

\* str.endswith(p)
EndsWith(s, p) == Len(p) <= Len(s) /\ SubSeq(s, Len(s) - Len(p) + 1, Len(s)) = p

\* p in s
Contains(s, p) ==
    \/ p = <<>>
    \/ \E k \in 1..(Len(s) - Len(p) + 1) : s[k] = p[1] /\ SubSeq(s, k, k + Len(p) - 1) = p

\* str.count(c) for a single character
Count(s, c) == Cardinality({k \in 1..Len(s) : s[k] = c})

\* str.rfind(c) for a single character, 1-based; 0 when absent
RFind(s, c) ==
    LET ks == {k \in 1..Len(s) : s[k] = c}
    IN  IF ks = {} THEN 0 ELSE CHOOSE k \in ks : \A j \in ks : j <= k

\* os.path.basename: what follows the last "/"
Basename(s) == SubSeq(s, RFind(s, "/") + 1, Len(s))

\* os.path.dirname plus the separator: everything up to and including the last "/"
DirPart(s) == SubSeq(s, 1, RFind(s, "/"))

\* pathlib.PurePath.suffix: the last ".xyz" of the final component; empty when the
\* only dot is the leading one or the name ends with a dot
PathSuffix(s) ==
    LET name == Basename(s)
        d    == RFind(name, ".")
    IN  IF 1 < d /\ d < Len(name) THEN SubSeq(name, d, Len(name)) ELSE <<>>

\* os.path.splitext: <<root, ext>>; leading dots of the final component are not
\* an extension
LeadingDots(name) ==
    Cardinality({k \in 1..Len(name) : \A j \in 1..k : name[j] = "."})

SplitExt(s) ==
    LET name == Basename(s)
        d    == RFind(name, ".")
    IN  IF d > LeadingDots(name)
        THEN <<DirPart(s) \o SubSeq(name, 1, d - 1), SubSeq(name, d, Len(name))>>
        ELSE <<s, <<>>>>

\* s.split('.')[-1]: what follows the last "." of the whole string (the whole
\* string when it has no dot)
LastDotPart(s) == SubSeq(s, RFind(s, ".") + 1, Len(s))

\* the elements of a sequence
Range(s) == {s[k] : k \in 1..Len(s)}


(* ------------------------- file_handler.py ---------------------------- *)
Platforms == {"android_java", "android_kotlin", "ios_swift"}

\* FileHandler.code_extensions
code_extensions(platform) ==
    CASE platform = "android_java"   -> {<<".", "j", "a", "v", "a">>, <<".", "x", "m", "l">>}
      [] platform = "android_kotlin" -> {<<".", "k", "t">>, <<".", "x", "m", "l">>}
      [] platform = "ios_swift"      -> {<<".", "s", "w", "i", "f", "t">>,
                                         <<".", "s", "t", "o", "r", "y", "b", "o", "a", "r", "d">>,
                                         <<".", "x", "i", "b">>}
      [] OTHER -> {}

\* FileHandler.skip_patterns, in the source's order and case
skip_patterns ==
    << <<".", "g", "i", "t", "/">>,
       <<".", "i", "d", "e", "a", "/">>,
       <<".", "v", "s", "c", "o", "d", "e", "/">>,
       <<"_", "_", "p", "y", "c", "a", "c", "h", "e", "_", "_", "/">>,
       <<".", "g", "r", "a", "d", "l", "e", "/">>,
       <<"b", "u", "i", "l", "d", "/">>,
       <<"b", "i", "n", "/">>,
       <<"o", "b", "j", "/">>,
       <<"t", "a", "r", "g", "e", "t", "/">>,
       <<".", "D", "S", "_", "S", "t", "o", "r", "e">>,
       <<"T", "h", "u", "m", "b", "s", ".", "d", "b">>,
       <<".", "g", "i", "t", "i", "g", "n", "o", "r", "e">>,
       <<".", "g", "i", "t", "a", "t", "t", "r", "i", "b", "u", "t", "e", "s">>,
       <<"g", "r", "a", "d", "l", "e", "/">>,
       <<"g", "r", "a", "d", "l", "e", "w">>,
       <<"g", "r", "a", "d", "l", "e", "w", ".", "b", "a", "t">>,
       <<"l", "o", "c", "a", "l", ".", "p", "r", "o", "p", "e", "r", "t", "i", "e", "s">>,
       <<"P", "o", "d", "s", "/">>,
       <<"D", "e", "r", "i", "v", "e", "d", "D", "a", "t", "a", "/">>,
       <<".", "x", "c", "w", "o", "r", "k", "s", "p", "a", "c", "e", "/">>,
       <<".", "x", "c", "o", "d", "e", "p", "r", "o", "j", "/">>,
       <<".", "p", "n", "g">>,
       <<".", "j", "p", "g">>,
       <<".", "j", "p", "e", "g">>,
       <<".", "g", "i", "f">>,
       <<".", "i", "c", "o">>,
       <<".", "s", "v", "g">>,
       <<".", "w", "e", "b", "p">>,
       <<".", "m", "p", "3">>,
       <<".", "m", "p", "4">>,
       <<".", "a", "v", "i">>,
       <<".", "m", "o", "v">>,
       <<".", "w", "a", "v">>,
       <<"p", "r", "o", "g", "u", "a", "r", "d", "-", "r", "u", "l", "e", "s", ".", "p", "r", "o">>,
       <<".", "p", "r", "o">>,
       <<".", "p", "r", "o", "p", "e", "r", "t", "i", "e", "s">>,
       <<".", "m", "d">>,
       <<".", "t", "x", "t">>,
       <<".", "p", "d", "f">>,
       <<".", "d", "o", "c", "x">>,
       <<".", "z", "i", "p">>,
       <<".", "t", "a", "r">>,
       <<".", "g", "z">>,
       <<".", "r", "a", "r">> >>

\* FileHandler.preserve_files
preserve_files ==
    << <<".", "p", "n", "g">>,
       <<".", "j", "p", "g">>,
       <<".", "j", "p", "e", "g">>,
       <<".", "g", "i", "f">>,
       <<".", "i", "c", "o">>,
       <<".", "s", "v", "g">>,
       <<".", "w", "e", "b", "p">>,
       <<".", "m", "p", "3">>,
       <<".", "m", "p", "4">>,
       <<".", "a", "v", "i">>,
       <<".", "m", "o", "v">>,
       <<".", "w", "a", "v">>,
       <<"a", "n", "d", "r", "o", "i", "d", "m", "a", "n", "i", "f", "e", "s", "t", ".", "x", "m", "l">>,
       <<"i", "n", "f", "o", ".", "p", "l", "i", "s", "t">> >>

\* the exact-filename list of _should_skip_file
exact_names ==
    << <<"g", "r", "a", "d", "l", "e", "w">>,
       <<"g", "r", "a", "d", "l", "e", "w", ".", "b", "a", "t">>,
       <<"l", "o", "c", "a", "l", ".", "p", "r", "o", "p", "e", "r", "t", "i", "e", "s">>,
       <<".", "d", "s", "_", "s", "t", "o", "r", "e">>,
       <<"t", "h", "u", "m", "b", "s", ".", "d", "b">> >>

\* the suspicious-substring list of _should_skip_file
suspicious_patterns ==
    << <<"g", "e", "n", "e", "r", "a", "t", "e", "d">>,
       <<"c", "a", "c", "h", "e">>,
       <<"t", "e", "m", "p">>,
       <<"t", "m", "p">>,
       <<".", "c", "l", "a", "s", "s">>,
       <<".", "d", "e", "x">>,
       <<".", "o">> >>

\* the first rule with the names spelt as in skip_patterns (".DS_Store",
\* "Thumbs.db"), which a lower-cased basename never equals
ExactNameMatch_MixedCase(file_name) ==
    file_name \in { <<"g", "r", "a", "d", "l", "e", "w">>,
                    <<"g", "r", "a", "d", "l", "e", "w", ".", "b", "a", "t">>,
                    <<"l", "o", "c", "a", "l", ".", "p", "r", "o", "p", "e", "r", "t", "i", "e", "s">>,
                    <<".", "D", "S", "_", "S", "t", "o", "r", "e">>,
                    <<"T", "h", "u", "m", "b", "s", ".", "d", "b">> }

\* _should_skip_file, first rule: the lower-cased basename is on the exact list
ExactNameMatch(file_name) == file_name \in Range(exact_names)

\* _should_skip_file, second rule: one pattern of skip_patterns against the
\* lower-cased path; a pattern ending in "/" is a folder pattern
PatternMatch(file_path_lower, pattern) ==
    IF EndsWith(pattern, <<"/">>)
    THEN \/ Contains(<<"/">> \o file_path_lower \o <<"/">>,
                     <<"/">> \o SubSeq(pattern, 1, Len(pattern) - 1) \o <<"/">>)
         \/ StartsWith(file_path_lower, SubSeq(pattern, 1, Len(pattern) - 1) \o <<"/">>)
    ELSE \/ EndsWith(file_path_lower, pattern)
         \/ Contains(file_path_lower, pattern)

\* _should_skip_file, third rule: the number of "/" of the path as given
DepthMatch(file_path) == Count(file_path, "/") > 6

\* _should_skip_file, fourth rule
SuspiciousMatch(file_path_lower) ==
    \E k \in 1..Len(suspicious_patterns) : Contains(file_path_lower, suspicious_patterns[k])

\* FileHandler._should_skip_file
ShouldSkipFile(file_path) ==
    LET file_path_lower == Lower(file_path)
        file_name       == Basename(file_path_lower)
    IN  \/ ExactNameMatch(file_name)
        \/ \E k \in 1..Len(skip_patterns) : PatternMatch(file_path_lower, skip_patterns[k])
        \/ DepthMatch(file_path)
        \/ SuspiciousMatch(file_path_lower)

\* the should_preserve flag computed by _extract_preserve_files
ShouldPreserve(file_path) ==
    LET file_path_lower == Lower(file_path)
        file_name       == Basename(file_path_lower)
    IN  \E k \in 1..Len(preserve_files) :
            \/ EndsWith(file_path_lower, preserve_files[k])
            \/ Contains(file_name, preserve_files[k])

\* "if file_path.endswith('/'): continue"
IsDirectory(file_path) == EndsWith(file_path, <<"/">>)

\* "file_ext in valid_extensions" of extract_code_files
HasCodeExtension(file_path, platform) ==
    Lower(PathSuffix(file_path)) \in code_extensions(platform)

(* ------------------------- archives (inputs) -------------------------- *)
\* The entries archives are built from: a name as zipfile.namelist() gives it
\* and the entry's decoded text (empty for a zero-length entry).
EntryPool ==
    { [name |-> <<"M", "a", "i", "n", ".", "j", "a", "v", "a">>,
       data |-> <<"j">>],  \* Main.java
      [name |-> <<"l", "a", "y", "o", "u", "t", "/", "a", ".", "x", "m", "l">>,
       data |-> <<"l">>],  \* layout/a.xml
      [name |-> <<"i", "c", "o", "n", ".", "p", "n", "g">>,
       data |-> <<"i">>],  \* icon.png
      [name |-> <<"g", "r", "a", "d", "l", "e", "w">>,
       data |-> <<"g">>],  \* gradlew
      [name |-> <<"a", "p", "p", "/", "T", "h", "u", "m", "b", "s", ".", "d", "b">>,
       data |-> <<"t">>],  \* app/Thumbs.db
      [name |-> <<"A", "n", "d", "r", "o", "i", "d", "M", "a", "n", "i", "f", "e", "s", "t", ".", "x", "m", "l">>,
       data |-> <<"m">>],  \* AndroidManifest.xml
      [name |-> <<"d", "a", "t", "a", ".", "j", "s", "o", "n">>,
       data |-> <<"d">>],  \* data.json
      [name |-> <<"a", "/", "b", "/", "c", "/", "d", "/", "e", "/", "f", "/", "g", "/", "K", ".", "k", "t">>,
       data |-> <<"k">>],  \* a/b/c/d/e/f/g/K.kt
      [name |-> <<"a", "/", "b", "/", "c", "/", "d", "/", "e", "/", "f", "/", "K", ".", "k", "t">>,
       data |-> <<"q">>],  \* a/b/c/d/e/f/K.kt
      [name |-> <<"V", ".", "s", "w", "i", "f", "t">>,
       data |-> <<"v">>],  \* V.swift
      [name |-> <<"I", "n", "f", "o", ".", "p", "l", "i", "s", "t">>,
       data |-> <<"p">>],  \* Info.plist
      [name |-> <<"E", "m", "p", "t", "y", ".", "j", "a", "v", "a">>,
       data |-> <<>>],  \* Empty.java
      [name |-> <<"l", "a", "y", "o", "u", "t", "/">>,
       data |-> <<>>],  \* layout/
      [name |-> <<"B", ".", "j", "a", "v", "a">>,
       data |-> <<"0xFF", "b">>]  \* B.java, not UTF-8
    }

\* The classifier's predicates tabulated over the names of the pool: the same
\* values as the operators above, evaluated once instead of at every step.
PoolNames == {e.name : e \in EntryPool}
SkipTable == [p \in PoolNames |-> ShouldSkipFile(p)]
PreserveTable == [p \in PoolNames |-> ShouldPreserve(p)]
CodeExtTable == [p \in PoolNames |-> [pl \in Platforms |-> HasCodeExtension(p, pl)]]
DirTable == [p \in PoolNames |-> IsDirectory(p)]
Skip(p) == SkipTable[p]
Preserve(p) == PreserveTable[p]
CodeExt(p, platform) == CodeExtTable[p][platform]
IsDir(p) == DirTable[p]

\* injective sequences over S of length n
RECURSIVE Arrangements(_, _)
Arrangements(S, n) ==
    IF n = 0 THEN {<<>>}
    ELSE UNION {{Append(a, e) : e \in {x \in S : \A k \in 1..Len(a) : a[k].name # x.name}}
                : a \in Arrangements(S, n - 1)}

\* archives whose entries have distinct names, of length 0..n
ArchivesOver(S, n) == UNION {Arrangements(S, k) : k \in 0..n}

(* ------------------------------- state -------------------------------- *)
VARIABLES
    pc,                  \* position of the request handler / classifier / converter
    \* the request (app.py convert_code)
    valid_files,         \* the uploads that passed allowed_file, in order
    u,                   \* index of the upload the loop is at
    source_platform, target_platform, conversion_type,
    filename,            \* "filename": the last saved upload's secure name
    all_extracted_files, \* (staged path, relative path) pairs handed to the converter
    preserve_files_req,  \* convert_code's preserve_files list
    flashes,             \* categories of the messages flashed so far
    response,            \* "none", "index" (redirect to the form) or "preview"
    \* locals of extract_code_files / _extract_preserve_files (last call)
    file_list, idx, extracted_files, skipped_files, error_files, zip_preserve,
    \* environment
    fs,                  \* staged files: staged path -> text
    ntemp,               \* number of directories tempfile.mkdtemp() has created
    faults,              \* read faults injected so far
    converted_dir,       \* CONVERTED_FOLDER: output filename -> artifact
    \* convert_files / _convert_single_file
    i, attempt, retry_delay, source_code, converted_files, conversion_error,
    \* history (not read by the program)
    calls,               \* capability calls made for the entry being converted
    last,                \* what became of the last of them
    sleeps,              \* the backoff delays slept for the entry being converted
    origin,              \* per element of converted_files: [src, kind]
    translated,          \* per entry convert_files is through with: the accepted answer
    \* output
    output_filename, is_single_file,
    \* a second request handled at the same time by another worker
    peer,                \* its position and its form: [pc, req]
    \* one function of the program called on its own
    call                 \* [fn, its arguments, returned, result]

reqVars   == <<valid_files, u, source_platform, target_platform, conversion_type,
               filename, all_extracted_files, preserve_files_req, flashes, response>>
classVars == <<file_list, idx, extracted_files, skipped_files, error_files, zip_preserve>>
envVars   == <<fs, ntemp, faults, converted_dir>>
convVars  == <<i, attempt, retry_delay, source_code, converted_files, conversion_error,
               calls, last, sleeps, origin, translated>>
outVars   == <<output_filename, is_single_file>>
vars      == <<pc, reqVars, classVars, envVars, convVars, outVars, peer, call>>

\* the values every specification starts from (no request received yet),
\* apart from pc, source_platform, file_list, peer and call
Blank ==
    /\ valid_files = <<>> /\ u = 1
    /\ target_platform = "none"
    /\ conversion_type = "full_project"
    /\ filename = <<"c", "o", "n", "v", "e", "r", "s", "i", "o", "n">>
    /\ all_extracted_files = <<>> /\ preserve_files_req = <<>>
    /\ flashes = <<>> /\ response = "none"
    /\ idx = 1
    /\ extracted_files = <<>> /\ skipped_files = <<>> /\ error_files = <<>>
    /\ zip_preserve = <<>>
    /\ fs = <<>> /\ ntemp = 0 /\ faults = 0 /\ converted_dir = <<>>
    /\ i = 1 /\ attempt = 0 /\ retry_delay = 2 /\ source_code = <<>>
    /\ converted_files = <<>> /\ conversion_error = FALSE
    /\ calls = 0 /\ last = "none" /\ sleeps = <<>> /\ origin = <<>> /\ translated = <<>>
    /\ output_filename = <<>> /\ is_single_file = FALSE

\* the bytes that are not part of any UTF-8 text; "0xFF" stands for the one
\* byte of that value
InvalidBytes == {"0xFF"}

\* open(path, 'r', encoding='utf-8', errors='ignore').read(): the bytes that do
\* not decode are dropped, the read never raises UnicodeDecodeError
ReadText(bytes) == SelectSeq(bytes, LAMBDA b : b \notin InvalidBytes)

\* the test read of extract_code_files (lines 84-85) raises on these bytes:
\* never, as it decodes with errors='ignore' and discards what it read
TestReadRaises(bytes) == FALSE

\* tempfile.mkdtemp() + zip_ref.extract(): the staged path of an entry extracted
\* into the n-th temporary directory (directory 0 is UPLOAD_FOLDER)
Staged(n, rel) == [dir |-> n, rel |-> rel]

\* a file system with one more file
WriteFile(files, path, text) == (path :> text) @@ files

(* -------------------- FileHandler.extract_code_files ------------------ *)
\* the loop body without the "continue" of line 70: a skipped entry goes on to
\* the extension test
ClassifyEntry_NoContinue(e, platform, outcome, n, ex, sk, er) ==
    IF IsDir(e.name) THEN <<ex, sk, er>>
    ELSE LET sk2 == IF Skip(e.name) THEN Append(sk, e.name) ELSE sk
         IN  IF CodeExt(e.name, platform)
             THEN IF outcome = "ok" /\ Len(e.data) > 0
                  THEN <<Append(ex, <<Staged(n, e.name), e.name>>), sk2, er>>
                  ELSE <<ex, sk2, Append(er, e.name \o <<" (extraction failed)">>)>>
             ELSE <<ex, sk2, er>>

\* the loop body without the extension test of lines 73-74: every entry that
\* is not skipped is staged as code
ClassifyEntry_NoExtensionTest(e, platform, outcome, n, ex, sk, er) ==
    IF IsDir(e.name) THEN <<ex, sk, er>>
    ELSE IF Skip(e.name) THEN <<ex, Append(sk, e.name), er>>
    ELSE IF Len(e.data) > 0
         THEN <<Append(ex, <<Staged(n, e.name), e.name>>), sk, er>>
         ELSE <<ex, sk, Append(er, e.name \o <<" (empty or corrupted)">>)>>

\* what the body of the "for file_path in file_list" loop does with one entry,
\* as the new values of <<extracted_files, skipped_files, error_files>>;
\* outcome is what the staging of the entry does: "ok", "extract_fails"
\* (zip_ref.extract raises) or "mkdtemp_fails" (tempfile.mkdtemp raises)
ClassifyEntry(e, platform, outcome, n, ex, sk, er) ==
    IF IsDir(e.name) THEN <<ex, sk, er>>
    ELSE IF Skip(e.name) THEN <<ex, Append(sk, e.name), er>>
    ELSE IF CodeExt(e.name, platform)
         THEN IF outcome = "mkdtemp_fails"
              THEN <<ex, sk, Append(er, e.name \o <<" (processing error)">>)>>
              ELSE IF outcome = "extract_fails"
              THEN <<ex, sk, Append(er, e.name \o <<" (extraction failed)">>)>>
              ELSE IF Len(e.data) > 0
              THEN IF TestReadRaises(e.data)
                   THEN <<ex, sk, Append(er, e.name \o <<" (extraction failed)">>)>>
                   ELSE <<Append(ex, <<Staged(n, e.name), e.name>>), sk, er>>
              ELSE <<ex, sk, Append(er, e.name \o <<" (empty or corrupted)">>)>>
    ELSE <<ex, sk, er>>

StagingOutcomes == {"ok", "extract_fails", "mkdtemp_fails"}

\* one iteration of the loop of extract_code_files
ExtractCodeEntry ==
    /\ pc = "extract_code"
    /\ idx <= Len(file_list)
    /\ LET e      == file_list[idx]
           staged == ~IsDir(e.name) /\ ~Skip(e.name)
                     /\ CodeExt(e.name, source_platform)
       IN  \E outcome \in (IF staged THEN StagingOutcomes ELSE {"ok"}) :
             LET n == IF staged /\ outcome # "mkdtemp_fails" THEN ntemp + 1 ELSE ntemp
                 r == ClassifyEntry(e, source_platform, outcome, n,
                                    extracted_files, skipped_files, error_files)
             IN  /\ extracted_files' = r[1]
                 /\ skipped_files' = r[2]
                 /\ error_files' = r[3]
                 /\ ntemp' = n
                 /\ fs' = IF staged /\ outcome = "ok"
                          THEN WriteFile(fs, Staged(n, e.name), e.data) ELSE fs
    /\ idx' = idx + 1
    /\ UNCHANGED <<pc, reqVars, file_list, zip_preserve, faults, converted_dir,
                   convVars, outVars>>
    /\ UNCHANGED <<peer, call>>

\* the loop of extract_code_files is over: it returns and extract_project_files
\* calls _extract_preserve_files
ExtractCodeDone ==
    /\ pc = "extract_code"
    /\ idx > Len(file_list)
    /\ pc' = "extract_preserve"
    /\ idx' = 1
    /\ zip_preserve' = <<>>
    /\ UNCHANGED <<reqVars, file_list, extracted_files, skipped_files, error_files,
                   envVars, convVars, outVars>>
    /\ UNCHANGED <<peer, call>>

(* ------------------ FileHandler._extract_preserve_files --------------- *)
\* the condition without the skip test of line 146
PreserveCondition_NoSkipTest(file_path) == Preserve(file_path)

\* the condition under which an entry is staged for preservation
PreserveCondition(file_path) == Preserve(file_path) /\ ~Skip(file_path)

\* one iteration of the loop of _extract_preserve_files
ExtractPreserveEntry ==
    /\ pc = "extract_preserve"
    /\ idx <= Len(file_list)
    /\ LET e      == file_list[idx]
           staged == ~IsDir(e.name) /\ PreserveCondition(e.name)
       IN  \E outcome \in (IF staged THEN StagingOutcomes ELSE {"ok"}) :
             LET n == IF staged /\ outcome # "mkdtemp_fails" THEN ntemp + 1 ELSE ntemp
             IN  /\ ntemp' = n
                 /\ IF staged /\ outcome = "ok"
                    THEN /\ zip_preserve' = Append(zip_preserve, <<Staged(n, e.name), e.name>>)
                         /\ fs' = WriteFile(fs, Staged(n, e.name), e.data)
                    ELSE UNCHANGED <<zip_preserve, fs>>
    /\ idx' = idx + 1
    /\ UNCHANGED <<pc, reqVars, file_list, extracted_files, skipped_files, error_files,
                   faults, converted_dir, convVars, outVars>>
    /\ UNCHANGED <<peer, call>>

\* the loop of _extract_preserve_files is over: extract_project_files is about
\* to return its four lists
ExtractPreserveDone ==
    /\ pc = "extract_preserve"
    /\ idx > Len(file_list)
    /\ pc' = "extract_return"
    /\ UNCHANGED <<reqVars, classVars, envVars, convVars, outVars>>
    /\ UNCHANGED <<peer, call>>

\* extract_project_files returns to a caller that only keeps the four lists
ClassifyReturn ==
    /\ pc = "extract_return"
    /\ pc' = "classified"
    /\ UNCHANGED <<reqVars, classVars, envVars, convVars, outVars>>
    /\ UNCHANGED <<peer, call>>


(* ------------------------- code_converter.py -------------------------- *)
\* one attempt more than the source allows
max_retries_plus_one == 3 + 1

\* max_retries of _convert_single_file
max_retries == 3

\* a first delay twice as long as the source's
initial_retry_delay_doubled == 2 * 2

\* the initial retry_delay of _convert_single_file, in seconds
initial_retry_delay == 2

Whitespace == {" ", "\n", "\t"}

\* str.strip()
RECURSIVE LStrip(_)
LStrip(s) == IF s # <<>> /\ Head(s) \in Whitespace THEN LStrip(Tail(s)) ELSE s

RECURSIVE RStrip(_)
RStrip(s) ==
    IF s # <<>> /\ s[Len(s)] \in Whitespace THEN RStrip(SubSeq(s, 1, Len(s) - 1)) ELSE s

Strip(s) == RStrip(LStrip(s))

\* str.split('\n'): the lines of a text (one line, possibly empty, when there is
\* no newline)
RECURSIVE SplitLines(_)
SplitLines(s) ==
    LET ks == {k \in 1..Len(s) : s[k] = "\n"}
    IN  IF ks = {} THEN <<s>>
        ELSE LET k == CHOOSE x \in ks : \A y \in ks : x <= y
             IN  <<SubSeq(s, 1, k - 1)>> \o SplitLines(SubSeq(s, k + 1, Len(s)))

\* '\n'.join(lines)
RECURSIVE JoinLines(_)
JoinLines(lines) ==
    IF lines = <<>> THEN <<>>
    ELSE IF Len(lines) = 1 THEN lines[1]
    ELSE lines[1] \o <<"\n">> \o JoinLines(Tail(lines))

\* the three grave accents of a code fence; a grave accent is written "^"
\* throughout, SANY does not read one inside a string
Fence == <<"^", "^", "^">>

\* an attempt that lets an empty answer through as the translation
AttemptResult_EmptyAccepted(answer) ==
    IF answer.kind = "error" THEN [ok |-> FALSE]
    ELSE [ok |-> TRUE, code |-> Strip(answer.text)]

\* What one attempt of _convert_single_file makes of the capability's answer
\* (lines 90-106). An answer is [kind |-> "error"] (the call raised) or
\* [kind |-> "text", text |-> ...] (message.content; empty for None or "").
\* The result is [ok |-> TRUE, code |-> ...] when the attempt returns, and
\* [ok |-> FALSE] when it raises: on a transport error, on an empty answer and
\* when the answer is a lone fence line (lines[-1] of an empty list).
AttemptResult(answer) ==
    IF answer.kind = "error" THEN [ok |-> FALSE]
    ELSE IF answer.text = <<>> THEN [ok |-> FALSE]
    ELSE LET converted_code == Strip(answer.text)
         IN  IF StartsWith(converted_code, Fence)
             THEN LET lines1 == Tail(SplitLines(converted_code))
                  IN  IF lines1 = <<>> THEN [ok |-> FALSE]
                      ELSE IF Strip(lines1[Len(lines1)]) = Fence
                      THEN [ok |-> TRUE,
                            code |-> JoinLines(SubSeq(lines1, 1, Len(lines1) - 1))]
                      ELSE [ok |-> TRUE, code |-> JoinLines(lines1)]
             ELSE [ok |-> TRUE, code |-> converted_code]

\* how the history records an answer: the call raised, the answer was empty,
\* the answer was returned as the translation, or its clean-up raised
AnswerKind(answer) ==
    IF answer.kind = "error" THEN "error"
    ELSE IF answer.text = <<>> THEN "empty"
    ELSE IF AttemptResult(answer).ok THEN "accepted" ELSE "rejected"

\* extension_map of _get_converted_filename
extension_map(platform) ==
    CASE platform = "android_java"   -> <<".", "j", "a", "v", "a">>
      [] platform = "android_kotlin" -> <<".", "k", "t">>
      [] platform = "ios_swift"      -> <<".", "s", "w", "i", "f", "t">>

\* CodeConverter._get_converted_filename
ConvertedFilename(original_filename, target) ==
    LET parts == SplitExt(original_filename)
    IN  parts[1] \o (IF target \in Platforms THEN extension_map(target) ELSE parts[2])

\* CodeConverter._get_error_comment: the same comment style for the three platforms
ErrorComment(error_message, target) ==
    IF target \in Platforms
    THEN <<"// CONVERSION ERROR: ">> \o error_message
    ELSE <<"# CONVERSION ERROR: ">> \o error_message

\* CodeConverter._get_conversion_guidance: which of the four note blocks
ConversionGuidance(source, target, fname) ==
    LET file_ext == Lower(LastDotPart(fname))
    IN  IF source = "android_java" /\ target = "ios_swift"
        THEN IF Contains(fname, <<".">>) /\ file_ext = <<"x", "m", "l">>
             THEN <<"/* NOTES: ANDROID XML TO iOS SWIFT */">>
             ELSE <<"/* NOTES: ANDROID JAVA TO iOS SWIFT */">>
        ELSE IF source = "android_kotlin" /\ target = "ios_swift"
        THEN <<"/* NOTES: ANDROID KOTLIN TO iOS SWIFT */">>
        ELSE <<"/* NOTES: ", source, " TO ", target, " */">>

\* the fall-back text without the original source appended
FallbackConversion_NoSource(code, source, target, fname) ==
    ErrorComment(<<"AI service temporarily unavailable. This is the original ",
                   source, " code with basic conversion notes.">>, target)
      \o <<"\n", "\n">> \o ConversionGuidance(source, target, fname)

\* CodeConverter._fallback_conversion
FallbackConversion(code, source, target, fname) ==
    ErrorComment(<<"AI service temporarily unavailable. This is the original ",
                   source, " code with basic conversion notes.">>, target)
      \o <<"\n", "\n">> \o ConversionGuidance(source, target, fname)
      \o <<"\n", "\n">> \o <<"/* ORIGINAL ", source, " CODE: ... */">>
      \o <<"\n", "\n">> \o code

\* the answers the transformation capability gives in the model
Answers ==
    { [kind |-> "error"],
      [kind |-> "text", text |-> <<>>],
      [kind |-> "text", text |-> <<"o", "k">>],
      [kind |-> "text", text |-> <<"^", "^", "^", "\n", "o", "k", "\n", "^", "^", "^", "\n">>],
      [kind |-> "text", text |-> <<"^", "^", "^">>] }

\* bound on the read faults injected into one request
MaxFaults == 3

\* convert_files, lines 30-36: the loop takes the next entry and reads its
\* staged file; a failed read raises into the handler of lines 48-54
ConvertReadSource ==
    /\ pc = "convert"
    /\ i <= Len(all_extracted_files)
    /\ LET file_path == all_extracted_files[i][1]
       IN  \/ /\ file_path \in DOMAIN fs
              /\ source_code' = ReadText(fs[file_path])
              /\ pc' = "invoke"
              /\ UNCHANGED faults
           \/ /\ faults < MaxFaults
              /\ faults' = faults + 1
              /\ pc' = "handler"
              /\ UNCHANGED source_code
    /\ attempt' = 0
    /\ retry_delay' = initial_retry_delay
    /\ calls' = 0
    /\ last' = "none"
    /\ sleeps' = <<>>
    /\ UNCHANGED <<reqVars, classVars, fs, ntemp, converted_dir, i, converted_files,
                   conversion_error, origin, translated, outVars>>
    /\ UNCHANGED <<peer, call>>

\* one pass of the "for attempt in range(max_retries)" loop of
\* _convert_single_file: one call of the capability and what follows it, up to
\* the append of line 46 when the call returns
Invoke ==
    /\ pc = "invoke"
    /\ \E answer \in Answers :
         LET res           == AttemptResult(answer)
             relative_path == all_extracted_files[i][2]
             new_filename  == ConvertedFilename(relative_path, target_platform)
         IN  /\ calls' = calls + 1
             /\ last' = AnswerKind(answer)
             /\ IF res.ok
                THEN /\ converted_files' = Append(converted_files, <<new_filename, res.code>>)
                     /\ origin' = Append(origin, [src |-> i, kind |-> "success"])
                     /\ translated' = Append(translated, [ok |-> TRUE, code |-> res.code])
                     /\ i' = i + 1
                     /\ pc' = "convert"
                     /\ UNCHANGED <<attempt, retry_delay, sleeps>>
                ELSE IF attempt < max_retries - 1
                THEN /\ sleeps' = Append(sleeps, retry_delay)
                     /\ retry_delay' = retry_delay * 2
                     /\ attempt' = attempt + 1
                     /\ UNCHANGED <<pc, i, converted_files, origin, translated>>
                ELSE /\ converted_files' =
                          Append(converted_files,
                                 <<new_filename,
                                   FallbackConversion(source_code, source_platform,
                                                      target_platform, relative_path)>>)
                     /\ origin' = Append(origin, [src |-> i, kind |-> "fallback"])
                     /\ translated' = Append(translated, [ok |-> FALSE])
                     /\ i' = i + 1
                     /\ pc' = "convert"
                     /\ UNCHANGED <<attempt, retry_delay, sleeps>>
    /\ UNCHANGED <<reqVars, classVars, envVars, source_code, conversion_error, outVars>>
    /\ UNCHANGED <<peer, call>>

\* convert_files, lines 48-54: the handler of a failed entry reads the staged
\* file again; if that read fails too the exception leaves convert_files
ConvertHandler ==
    /\ pc = "handler"
    /\ LET file_path     == all_extracted_files[i][1]
           relative_path == all_extracted_files[i][2]
       IN  \/ /\ file_path \in DOMAIN fs
              /\ converted_files' =
                   Append(converted_files,
                          <<relative_path,
                            ErrorComment(<<"read error">>, target_platform)
                              \o <<"\n", "\n">> \o ReadText(fs[file_path])>>)
              /\ origin' = Append(origin, [src |-> i, kind |-> "error_comment"])
              /\ translated' = Append(translated, [ok |-> FALSE])
              /\ i' = i + 1
              /\ pc' = "convert"
              /\ UNCHANGED <<faults, conversion_error>>
           \/ /\ faults < MaxFaults
              /\ faults' = faults + 1
              /\ conversion_error' = TRUE
              /\ converted_files' = <<>>
              /\ origin' = <<>>
              /\ i' = 1
              /\ pc' = "app_fallback"
              /\ UNCHANGED translated
    /\ UNCHANGED <<reqVars, classVars, fs, ntemp, converted_dir, attempt, retry_delay,
                   source_code, calls, last, sleeps, outVars>>
    /\ UNCHANGED <<peer, call>>

\* convert_files returns its list (line 56)
ConvertDone ==
    /\ pc = "convert"
    /\ i > Len(all_extracted_files)
    /\ pc' = "assemble"
    /\ UNCHANGED <<reqVars, classVars, envVars, convVars, outVars>>
    /\ UNCHANGED <<peer, call>>

(* ------------------------------- app.py ------------------------------- *)
\* ALLOWED_EXTENSIONS
ALLOWED_EXTENSIONS ==
    { <<"z", "i", "p">>, <<"j", "a", "v", "a">>, <<"k", "t">>,
      <<"s", "w", "i", "f", "t">>, <<"x", "m", "l">> }

\* allowed_file
allowed_file(fname) ==
    Contains(fname, <<".">>) /\ Lower(LastDotPart(fname)) \in ALLOWED_EXTENSIONS

\* the characters werkzeug's secure_filename keeps
SafeChars ==
    { "a", "b", "c", "d", "e", "f", "g", "h", "i", "j", "k", "l", "m", "n", "o", "p",
      "q", "r", "s", "t", "u", "v", "w", "x", "y", "z",
      "A", "B", "C", "D", "E", "F", "G", "H", "I", "J", "K", "L", "M", "N", "O", "P",
      "Q", "R", "S", "T", "U", "V", "W", "X", "Y", "Z",
      "0", "1", "2", "3", "4", "5", "6", "7", "8", "9", "_", ".", "-" }

\* "_".join(s.split()) after "/" has been replaced by " "
RECURSIVE JoinWords(_)
JoinWords(s) ==
    LET t == LStrip(s)
    IN  IF t = <<>> THEN <<>>
        ELSE LET ks   == {k \in 1..Len(t) : t[k] \in Whitespace}
                 k    == IF ks = {} THEN Len(t) + 1
                         ELSE CHOOSE x \in ks : \A y \in ks : x <= y
                 rest == JoinWords(SubSeq(t, k, Len(t)))
             IN  SubSeq(t, 1, k - 1) \o (IF rest = <<>> THEN <<>> ELSE <<"_">> \o rest)

RECURSIVE StripDots(_)
StripDots(s) ==
    IF s # <<>> /\ Head(s) \in {".", "_"} THEN StripDots(Tail(s))
    ELSE IF s # <<>> /\ s[Len(s)] \in {".", "_"} THEN StripDots(SubSeq(s, 1, Len(s) - 1))
    ELSE s

\* werkzeug.utils.secure_filename on ASCII names
secure_filename(fname) ==
    LET spaced == [k \in 1..Len(fname) |-> IF fname[k] = "/" THEN " " ELSE fname[k]]
        joined == JoinWords(spaced)
        kept   == SelectSeq(joined, LAMBDA c : c \in SafeChars)
    IN  StripDots(kept)

ConversionTypes == {"full_project", "logic_only", "layouts_only"}

\* the uploads a request is built from: the name the browser sent, the text of
\* a single file, and for an archive whether the container is corrupt (its
\* end-of-central-directory record cannot be read) and which entries it holds
UploadPool ==
    { [filename |-> <<"M", "a", "i", "n", ".", "j", "a", "v", "a">>,
       data |-> <<"j">>, corrupt |-> FALSE, entries |-> <<>>],
      [filename |-> <<"v", ".", "x", "m", "l">>,
       data |-> <<"x">>, corrupt |-> FALSE, entries |-> <<>>],
      [filename |-> <<"n", "o", "t", "e", "s", ".", "t", "x", "t">>,
       data |-> <<"n">>, corrupt |-> FALSE, entries |-> <<>>],
      [filename |-> <<"b", "a", "d", ".", "z", "i", "p">>,
       data |-> <<>>, corrupt |-> TRUE,
       entries |-> << [name |-> <<"V", ".", "s", "w", "i", "f", "t">>,
                       data |-> <<"v">>],
                      [name |-> <<"M", "a", "i", "n", ".", "j", "a", "v", "a">>,
                       data |-> <<"b">>],
                      [name |-> <<"I", "n", "f", "o", ".", "p", "l", "i", "s", "t">>,
                       data |-> <<"b">>] >>],
      [filename |-> <<"m", "y", " ", "a", "p", "p", ".", "z", "i", "p">>,
       data |-> <<>>, corrupt |-> FALSE,
       entries |-> << [name |-> <<"M", "a", "i", "n", ".", "j", "a", "v", "a">>,
                       data |-> <<"j">>],
                      [name |-> <<"i", "c", "o", "n", ".", "p", "n", "g">>,
                       data |-> <<"i">>],
                      [name |-> <<"g", "r", "a", "d", "l", "e", "w">>,
                       data |-> <<"g">>],
                      [name |-> <<"I", "n", "f", "o", ".", "p", "l", "i", "s", "t">>,
                       data |-> <<"p">>] >>],
      [filename |-> <<"o", "n", "e", ".", "z", "i", "p">>,
       data |-> <<>>, corrupt |-> FALSE,
       entries |-> << [name |-> <<"l", "a", "y", "o", "u", "t", "/", "a", ".", "x", "m", "l">>,
                       data |-> <<"l">>] >>] }

\* longest list of uploads in one request
MaxUploads == 2

RECURSIVE SeqsUpTo(_, _)
SeqsUpTo(S, n) ==
    IF n = 0 THEN {<<>>}
    ELSE LET shorter == SeqsUpTo(S, n - 1)
         IN  shorter \cup {Append(s, x) : s \in {t \in shorter : Len(t) = n - 1}, x \in S}

\* is_multiple_files
is_multiple_files == Len(valid_files) > 1

\* flash(..., 'error') followed by redirect(url_for('index'))
FailToIndex ==
    /\ flashes' = Append(flashes, "error")
    /\ response' = "index"
    /\ pc' = "done"

\* convert_code, lines 49-79: the form is read and validated
ReceiveRequest ==
    /\ pc = "idle"
    /\ \E uploaded_files \in SeqsUpTo(UploadPool, MaxUploads),
          sp \in Platforms, tp \in Platforms, ct \in ConversionTypes :
         LET valid == SelectSeq(uploaded_files, LAMBDA f : allowed_file(f.filename))
         IN  /\ source_platform' = sp
             /\ target_platform' = tp
             /\ conversion_type' = ct
             /\ IF uploaded_files = <<>> \/ sp = tp \/ valid = <<>>
                THEN /\ FailToIndex
                     /\ UNCHANGED valid_files
                ELSE /\ valid_files' = valid
                     /\ pc' = "upload_loop"
                     /\ UNCHANGED <<flashes, response>>
    /\ UNCHANGED <<u, filename, all_extracted_files, preserve_files_req,
                   classVars, envVars, convVars, outVars>>
    /\ UNCHANGED <<peer, call>>

\* a container that opens whatever its state
OpensAsZip_Always(upload_file) == TRUE

\* zipfile.ZipFile(zip_path, 'r') of extract_code_files opens the container;
\* on a corrupt one it raises BadZipFile, re-raised as ValueError (lines 56, 102-103)
OpensAsZip(upload_file) == ~upload_file.corrupt

\* convert_code, lines 81-92 and 111-113: the upload is saved under its secure
\* name; a single file joins the batch, an archive is handed to
\* extract_project_files, whose ZipFile() raises on a corrupt container
\* (lines 102-103), which lines 107-110 answer with a flash and "continue"
SaveUpload ==
    /\ pc = "upload_loop"
    /\ u <= Len(valid_files)
    /\ LET upload_file == valid_files[u]
           secure_name == secure_filename(upload_file.filename)
           upload_path == Staged(0, secure_name)
       IN  /\ filename' = secure_name
           /\ fs' = WriteFile(fs, upload_path, upload_file.data)
           /\ IF EndsWith(Lower(secure_name), <<".", "z", "i", "p">>)
              THEN IF ~OpensAsZip(upload_file)
                   THEN /\ flashes' = Append(flashes, "error")
                        /\ u' = u + 1
                        /\ UNCHANGED <<pc, all_extracted_files, file_list, idx,
                                       extracted_files, skipped_files, error_files>>
                   ELSE /\ pc' = "extract_code"
                        /\ file_list' = upload_file.entries
                        /\ idx' = 1
                        /\ extracted_files' = <<>>
                        /\ skipped_files' = <<>>
                        /\ error_files' = <<>>
                        /\ UNCHANGED <<u, all_extracted_files, flashes>>
              ELSE /\ all_extracted_files' =
                        Append(all_extracted_files, <<upload_path, secure_name>>)
                   /\ u' = u + 1
                   /\ UNCHANGED <<pc, flashes, file_list, idx, extracted_files,
                                  skipped_files, error_files>>
    /\ UNCHANGED <<valid_files, source_platform, target_platform, conversion_type,
                   preserve_files_req, response, zip_preserve, ntemp, faults,
                   converted_dir, convVars, outVars>>
    /\ UNCHANGED <<peer, call>>

\* convert_code, lines 94-97: the four lists of extract_project_files come back
\* and the loop goes on with the next upload
ZipClassified ==
    /\ pc = "extract_return"
    /\ all_extracted_files' = all_extracted_files \o extracted_files
    /\ preserve_files_req' = preserve_files_req \o zip_preserve
    /\ u' = u + 1
    /\ pc' = "upload_loop"
    /\ UNCHANGED <<valid_files, source_platform, target_platform, conversion_type,
                   filename, flashes, response, classVars, envVars, convVars, outVars>>
    /\ UNCHANGED <<peer, call>>

\* a filter that keeps every entry
KeptByFilter_KeepsAll(ct, relative_path) == TRUE

\* the test of lines 121-126 on one relative path
KeptByFilter(ct, relative_path) ==
    LET lowered  == Lower(relative_path)
        file_ext == LastDotPart(lowered)
    IN  IF ct = "logic_only"
        THEN file_ext \in {<<"j", "a", "v", "a">>, <<"k", "t">>, <<"s", "w", "i", "f", "t">>}
        ELSE IF ct = "layouts_only"
        THEN file_ext = <<"x", "m", "l">> \/ Contains(lowered, <<"l", "a", "y", "o", "u", "t">>)
        ELSE FALSE

\* the batch passed on as it is, whatever the conversion type
FilterByType_NoFilter(ct, files) == files

\* convert_code, lines 115-128
FilterByType(ct, files) ==
    IF ct # "full_project" /\ files # <<>>
    THEN SelectSeq(files, LAMBDA f : KeptByFilter(ct, f[2]))
    ELSE files

\* convert_code, lines 115-139: after the last upload the batch is filtered;
\* an empty batch ends the request, otherwise convert_files is called
FilterAndDispatch ==
    /\ pc = "upload_loop"
    /\ u > Len(valid_files)
    /\ LET filtered == FilterByType(conversion_type, all_extracted_files)
       IN  /\ all_extracted_files' = filtered
           /\ IF filtered = <<>>
              THEN FailToIndex
              ELSE /\ pc' = "convert"
                   /\ UNCHANGED <<flashes, response>>
    /\ i' = 1
    /\ converted_files' = <<>>
    /\ UNCHANGED <<valid_files, u, source_platform, target_platform, conversion_type,
                   filename, preserve_files_req, classVars, envVars, attempt,
                   retry_delay, source_code, conversion_error, calls, last, sleeps,
                   origin, translated, outVars>>
    /\ UNCHANGED <<peer, call>>

\* convert_code, lines 145-155: one entry of the fall-back loop that runs when
\* convert_files raised; an entry whose file cannot be read is left out
AppFallbackEntry ==
    /\ pc = "app_fallback"
    /\ i <= Len(all_extracted_files)
    /\ LET file_path     == all_extracted_files[i][1]
           relative_path == all_extracted_files[i][2]
       IN  \/ /\ file_path \in DOMAIN fs
              /\ converted_files' =
                   Append(converted_files,
                          <<relative_path,
                            <<"// CONVERSION FAILED: ", "read error", "...", "\n",
                              "// Original ", source_platform,
                              " file preserved below", "\n", "\n">> \o ReadText(fs[file_path])>>)
              /\ origin' = Append(origin, [src |-> i, kind |-> "app_fallback"])
              /\ UNCHANGED faults
           \/ /\ faults < MaxFaults
              /\ faults' = faults + 1
              /\ UNCHANGED <<converted_files, origin>>
    /\ i' = i + 1
    /\ UNCHANGED <<pc, reqVars, classVars, fs, ntemp, converted_dir, attempt,
                   retry_delay, source_code, conversion_error, calls, last, sleeps,
                   translated, outVars>>
    /\ UNCHANGED <<peer, call>>

\* convert_code, lines 157-159: the fall-back loop is over
AppFallbackDone ==
    /\ pc = "app_fallback"
    /\ i > Len(all_extracted_files)
    /\ IF converted_files = <<>>
       THEN FailToIndex
       ELSE /\ pc' = "assemble"
            /\ UNCHANGED <<flashes, response>>
    /\ UNCHANGED <<valid_files, u, source_platform, target_platform, conversion_type,
                   filename, all_extracted_files, preserve_files_req, classVars,
                   envVars, convVars, outVars>>
    /\ UNCHANGED <<peer, call>>

\* f"converted_{source_platform}_to_{target_platform}_{name}"
OutputName(name) ==
    <<"converted_", source_platform, "_to_", target_platform, "_">> \o name

\* create_zip storing the staged path of a preserve file as the member's text
ZipEntries_PathAsContent(converted, preserved, failing) ==
    converted \o
    [k \in 1..Len(SelectSeq([j \in 1..Len(preserved) |-> j], LAMBDA j : j \notin failing)) |->
        LET j == SelectSeq([x \in 1..Len(preserved) |-> x], LAMBDA x : x \notin failing)[k]
        IN  <<preserved[j][2], preserved[j][1].rel>>]

\* FileHandler.create_zip: the entries written for the converted files, then
\* those of the preserve files whose write did not fail
ZipEntries(converted, preserved, failing) ==
    converted \o
    [k \in 1..Len(SelectSeq([j \in 1..Len(preserved) |-> j], LAMBDA j : j \notin failing)) |->
        LET j == SelectSeq([x \in 1..Len(preserved) |-> x], LAMBDA x : x \notin failing)[k]
        IN  <<preserved[j][2], fs[preserved[j][1]]>>]

\* convert_code, lines 162-174 and 182-190: one result of a single upload is
\* written as a file; open() fails when the name has a directory part, which
\* CONVERTED_FOLDER does not hold, and lines 192-195 answer any failure
AssembleSingle ==
    /\ pc = "assemble"
    /\ Len(converted_files) = 1 /\ ~is_multiple_files
    /\ LET converted_filename == converted_files[1][1]
           converted_content  == converted_files[1][2]
           name               == OutputName(converted_filename)
       IN  /\ output_filename' = name
           /\ \E storage_ok \in BOOLEAN :
                IF storage_ok /\ ~Contains(converted_filename, <<"/">>)
                THEN /\ converted_dir' =
                          WriteFile(converted_dir, name,
                                    [kind |-> "file",
                                     content |-> IF converted_content # <<>>
                                                 THEN converted_content
                                                 ELSE <<"// Conversion failed - empty content">>])
                     /\ is_single_file' = TRUE
                     /\ flashes' = Append(flashes, "success")
                     /\ response' = "preview"
                     /\ pc' = "done"
                ELSE /\ FailToIndex
                     /\ UNCHANGED <<converted_dir, is_single_file>>
    /\ UNCHANGED <<valid_files, u, source_platform, target_platform, conversion_type,
                   filename, all_extracted_files, preserve_files_req, classVars,
                   fs, ntemp, faults, convVars>>
    /\ UNCHANGED <<peer, call>>

\* convert_code, lines 175-190 with FileHandler.create_zip: the archive is
\* written; a failing writestr leaves the entries written before it in the file
\* and raises (lines 212-214, then 192-195); a failing write of a preserve file
\* is only logged (lines 204-208)
AssembleZip ==
    /\ pc = "assemble"
    /\ ~(Len(converted_files) = 1 /\ ~is_multiple_files)
    /\ LET name == OutputName(filename)
       IN  /\ output_filename' = name
           /\ \E written \in 0..Len(converted_files),
                 failing \in SUBSET (1..Len(preserve_files_req)) :
                IF written = Len(converted_files)
                THEN /\ converted_dir' =
                          WriteFile(converted_dir, name,
                                    [kind |-> "zip",
                                     content |-> ZipEntries(converted_files,
                                                            preserve_files_req, failing)])
                     /\ flashes' = Append(flashes, "success")
                     /\ response' = "preview"
                     /\ pc' = "done"
                ELSE /\ failing = {}
                     /\ converted_dir' =
                          WriteFile(converted_dir, name,
                                    [kind |-> "zip",
                                     content |-> SubSeq(converted_files, 1, written)])
                     /\ FailToIndex
    /\ is_single_file' = FALSE
    /\ UNCHANGED <<valid_files, u, source_platform, target_platform, conversion_type,
                   filename, all_extracted_files, preserve_files_req, classVars,
                   fs, ntemp, faults, convVars>>
    /\ UNCHANGED <<peer, call>>

\* download_converted, lines 236-244: the mimetype the file is served with,
\* decided by the extension of its name
download_mimetype(fname) ==
    LET single == ~EndsWith(Lower(fname), <<".", "z", "i", "p">>)
    IN  IF single THEN "text/plain" ELSE "application/zip"

(* ------------------- a second, concurrent request --------------------- *)
\* no second request
NoPeer == [pc |-> "absent"]

\* the forms of the second request: one code file and a platform pair
PeerRequests ==
    { [filename |-> <<"M", "a", "i", "n", ".", "j", "a", "v", "a">>, data |-> <<"y">>,
       source |-> "android_java", target |-> "ios_swift"],
      [filename |-> <<"P", ".", "k", "t">>, data |-> <<"y">>,
       source |-> "android_kotlin", target |-> "ios_swift"] }

\* convert_code, lines 84-86 and 113, run for the second request: its upload
\* is saved in UPLOAD_FOLDER under its secure name
PeerSaveUpload ==
    /\ peer.pc = "idle"
    /\ fs' = WriteFile(fs, Staged(0, secure_filename(peer.req.filename)), peer.req.data)
    /\ peer' = [peer EXCEPT !.pc = "saved"]
    /\ UNCHANGED <<pc, reqVars, classVars, ntemp, faults, converted_dir, convVars, outVars, call>>

\* convert_code, lines 162-174, run for the second request: its one result
\* (here the fall-back text of its file) is written to CONVERTED_FOLDER
PeerWriteArtifact ==
    /\ peer.pc = "saved"
    /\ LET secure_name == secure_filename(peer.req.filename)
           name == <<"converted_", peer.req.source, "_to_", peer.req.target, "_">>
                     \o ConvertedFilename(secure_name, peer.req.target)
           text == FallbackConversion(ReadText(fs[Staged(0, secure_name)]), peer.req.source,
                                      peer.req.target, secure_name)
       IN  converted_dir' = WriteFile(converted_dir, name, [kind |-> "file", content |-> text])
    /\ peer' = [peer EXCEPT !.pc = "done"]
    /\ UNCHANGED <<pc, reqVars, classVars, fs, ntemp, faults, convVars, outVars, call>>

(* ------------------- functions called on their own ------------------- *)
\* no function is called on its own
NoCall == [fn |-> "none"]

\* longest response, in lines
MaxLines == 3

\* the lines responses are made of: a fence, a fence with a language tag, a
\* line of code, an empty line, a blank line
ResponseLines ==
    { Fence, Fence \o <<"s">>, <<"o", "k">>, <<>>, <<" ">> }

\* the texts of 1..n lines over ResponseLines
RECURSIVE TextsOfLines(_)
TextsOfLines(n) ==
    IF n = 1 THEN ResponseLines
    ELSE TextsOfLines(n - 1)
           \cup {t \o <<"\n">> \o l : t \in TextsOfLines(n - 1), l \in ResponseLines}

\* what the capability can answer to one call: it raises, or it returns
\* message.content
Responses ==
    {[kind |-> "error"]} \cup {[kind |-> "text", text |-> t] : t \in TextsOfLines(MaxLines)}

\* the try block of _convert_single_file (lines 71-106) run once on an answer
AttemptOnce ==
    /\ call.fn = "attempt"
    /\ ~call.returned
    /\ call' = [call EXCEPT !.returned = TRUE, !.result = AttemptResult(call.answer)]
    /\ UNCHANGED <<pc, reqVars, classVars, envVars, convVars, outVars, peer>>

\* the relative paths batches are made of
RelativePaths ==
    { <<"M", "a", "i", "n", ".", "j", "a", "v", "a">>,
      <<"M", "a", "i", "n", ".", "x", "m", "l">>,
      <<"M", "a", "i", "n", ".", "k", "t">>,
      <<"M", "a", "i", "n", ".", "s", "w", "i", "f", "t">>,
      <<"a", "/", "M", "a", "i", "n", ".", "j", "a", "v", "a">>,
      <<"l", "a", "y", "o", "u", "t", "/", "a", ".", "x", "m", "l">>,
      <<"v", ".", "x", "m", "l">>,
      <<"V", ".", "s", "w", "i", "f", "t">> }

\* convert_files, line 43, for the two entries of a batch: the names the
\* results are appended under, which create_zip writes them under (lines 197-198)
RemapOnce ==
    /\ call.fn = "remap"
    /\ ~call.returned
    /\ call' = [call EXCEPT !.returned = TRUE,
                            !.result = [k \in 1..Len(call.batch) |->
                                          ConvertedFilename(call.batch[k], call.target)]]
    /\ UNCHANGED <<pc, reqVars, classVars, envVars, convVars, outVars, peer>>

(* --------------------------- specifications --------------------------- *)
\* classify(archive, platform) on its own: every archive over the entry pool,
\* every supported platform
InitClassify ==
    /\ Blank
    /\ call = NoCall
    /\ peer = NoPeer
    /\ pc = "extract_code"
    /\ source_platform \in Platforms
    /\ file_list \in ArchivesOver(EntryPool, MaxEntries)

NextClassify ==
    \/ ExtractCodeEntry
    \/ ExtractCodeDone
    \/ ExtractPreserveEntry
    \/ ExtractPreserveDone
    \/ ClassifyReturn

SpecClassify == InitClassify /\ [][NextClassify]_vars

\* one request, from the form to the response
Init ==
    /\ Blank
    /\ call = NoCall
    /\ peer = NoPeer
    /\ pc = "idle"
    /\ source_platform = "none"
    /\ file_list = <<>>

Next ==
    \/ ReceiveRequest
    \/ SaveUpload
    \/ ExtractCodeEntry
    \/ ExtractCodeDone
    \/ ExtractPreserveEntry
    \/ ExtractPreserveDone
    \/ ZipClassified
    \/ FilterAndDispatch
    \/ ConvertReadSource
    \/ Invoke
    \/ ConvertHandler
    \/ ConvertDone
    \/ AppFallbackEntry
    \/ AppFallbackDone
    \/ AssembleSingle
    \/ AssembleZip

Spec == Init /\ [][Next]_vars

\* one request whose conversion keeps running: convert_files, the fall-back
\* loop and the assembly are straight-line code of one thread, and every call
\* of the capability returns or raises, so none of their steps is put off
\* forever
SpecLive ==
    /\ Init /\ [][Next]_vars
    /\ WF_vars(ConvertReadSource) /\ WF_vars(Invoke)
    /\ WF_vars(ConvertHandler) /\ WF_vars(ConvertDone)
    /\ WF_vars(AppFallbackEntry) /\ WF_vars(AppFallbackDone)
    /\ WF_vars(AssembleSingle) /\ WF_vars(AssembleZip)

\* one attempt of _convert_single_file on its own, for every answer
InitAttempt ==
    /\ Blank
    /\ peer = NoPeer
    /\ pc = "attempt"
    /\ source_platform = "none"
    /\ file_list = <<>>
    /\ call \in {[fn |-> "attempt", answer |-> a, returned |-> FALSE, result |-> [ok |-> FALSE]] :
                    a \in Responses}

NextAttempt == AttemptOnce

SpecAttempt == InitAttempt /\ [][NextAttempt]_vars

\* _get_converted_filename on its own, for every batch of two entries with
\* distinct relative paths and every target platform
InitRemap ==
    /\ Blank
    /\ peer = NoPeer
    /\ pc = "remap"
    /\ source_platform = "none"
    /\ file_list = <<>>
    /\ call \in {[fn |-> "remap", batch |-> <<p, q>>, target |-> t, returned |-> FALSE,
                   result |-> <<>>] :
                    p \in RelativePaths, q \in RelativePaths, t \in Platforms}
    /\ call.batch[1] # call.batch[2]

NextRemap == RemapOnce

SpecRemap == InitRemap /\ [][NextRemap]_vars

\* two requests handled at the same time: the steps of the second one, which
\* shares UPLOAD_FOLDER and CONVERTED_FOLDER with the first, interleave with
\* the steps of the first
InitConcurrent ==
    /\ Blank
    /\ call = NoCall
    /\ peer \in {[pc |-> "idle", req |-> r] : r \in PeerRequests}
    /\ pc = "idle"
    /\ source_platform = "none"
    /\ file_list = <<>>

NextConcurrent ==
    \/ Next
    \/ PeerSaveUpload
    \/ PeerWriteArtifact

SpecConcurrent == InitConcurrent /\ [][NextConcurrent]_vars

(* ------------------- properties of the classifier --------------------- *)
\* the archive entries that are not directories, by position
NonDirEntries == {k \in 1..Len(file_list) : ~IsDir(file_list[k].name)}

\* the relative paths recorded in the three lists of extract_code_files; an
\* element of error_files is the path followed by the reason
CodePaths == [k \in 1..Len(extracted_files) |-> extracted_files[k][2]]
ErrorPaths == [k \in 1..Len(error_files) |-> SubSeq(error_files[k], 1, Len(error_files[k]) - 1)]
PreservePaths == [k \in 1..Len(zip_preserve) |-> zip_preserve[k][2]]

\* a sequence without repeated elements
NoRepeats(s) == \A a, b \in 1..Len(s) : a # b => s[a] # s[b]

\* the lower-cased basename is one of the five names of the exact list
OnDenylistTable ==
    [p \in PoolNames |->
        Basename(Lower(p)) \in
            { <<"g", "r", "a", "d", "l", "e", "w">>,
              <<"g", "r", "a", "d", "l", "e", "w", ".", "b", "a", "t">>,
              <<"l", "o", "c", "a", "l", ".", "p", "r", "o", "p", "e", "r", "t", "i", "e", "s">>,
              <<".", "d", "s", "_", "s", "t", "o", "r", "e">>,
              <<"t", "h", "u", "m", "b", "s", ".", "d", "b">> }]

\* the path ends in one of the image or audio/video suffixes of preserve_files
MediaSuffixTable ==
    [p \in PoolNames |->
        \E k \in 1..Len(preserve_files) :
            /\ Head(preserve_files[k]) = "."
            /\ EndsWith(Lower(p), preserve_files[k])]

Recorded ==
    {k \in NonDirEntries :
        Skip(file_list[k].name) \/ CodeExt(file_list[k].name, source_platform)}

C2_ListsDisjoint ==
    /\ NoRepeats(CodePaths \o skipped_files \o ErrorPaths)
    /\ Range(CodePaths \o skipped_files \o ErrorPaths)
         \subseteq {file_list[k].name : k \in NonDirEntries}

C2_Witness ==
    /\ pc = "classified"
    /\ extracted_files # <<>> /\ skipped_files # <<>> /\ error_files # <<>>

\* C3: once extract_code_files is through with the archive, every non-directory
\* entry whose lower-cased basename is on the exact-name list is in
\* skipped_files and not among the code entries, on every platform.
C3_DenylistSkipped ==
    pc \in {"extract_preserve", "extract_return", "classified"} =>
        \A k \in NonDirEntries :
            OnDenylistTable[file_list[k].name] =>
                /\ file_list[k].name \in Range(skipped_files)
                /\ file_list[k].name \notin Range(CodePaths)

C3_Witness ==
    /\ pc = "classified"
    /\ \E k \in NonDirEntries :
          /\ OnDenylistTable[file_list[k].name]
          /\ file_list[k].name \in Range(skipped_files)
          /\ DirPart(file_list[k].name) # <<>>

\* C4: when classify has returned, every non-directory entry whose path ends in
\* an image or audio/video suffix of the preserve list is among the preserve
\* entries, also when a skip rule matches it.
C4_MediaPreserved ==
    pc = "classified" =>
        \A k \in NonDirEntries :
            MediaSuffixTable[file_list[k].name] =>
                file_list[k].name \in Range(PreservePaths)

(* ------------------ properties of the orchestrator -------------------- *)
\* convert_files (or the fall-back loop of convert_code) has just appended the
\* result of an entry: calls, last and sleeps still describe that entry
ResultProduced ==
    /\ pc = "convert"
    /\ origin # <<>>
    /\ origin[Len(origin)].src = i - 1

\* the text of the staged file of the k-th entry of the batch
SourceOf(k) == fs[all_extracted_files[k][1]]

\* C5: the list handed to the output assembler has one result per entry of the
\* batch, the k-th result coming from the k-th entry.
C5_OneResultPerEntry ==
    pc = "assemble" =>
        /\ Len(converted_files) = Len(all_extracted_files)
        /\ \A k \in 1..Len(origin) : origin[k].src = k

\* C6: when every staged file was read (no read fault) and no answer of the
\* capability was accepted for any entry, the assembler receives one result
\* per entry, each made by _fallback_conversion: the failure header, then the
\* entry's own source text as the end of the content.
C6_AllFallback ==
    (pc = "assemble" /\ faults = 0 /\ \A k \in 1..Len(translated) : ~translated[k].ok) =>
        /\ Len(converted_files) = Len(all_extracted_files)
        /\ \A k \in 1..Len(converted_files) :
              /\ origin[k] = [src |-> k, kind |-> "fallback"]
              /\ Head(converted_files[k][2]) = "// CONVERSION ERROR: "
              /\ EndsWith(converted_files[k][2], <<"\n", "\n">> \o SourceOf(k))
              /\ SourceOf(k) # <<>>

C6_Witness ==
    /\ pc = "assemble" /\ faults = 0
    /\ Len(all_extracted_files) = 2
    /\ Len(converted_files) = 2
    /\ \A k \in 1..2 : origin[k].kind = "fallback"
    /\ SourceOf(1) # SourceOf(2)

\* C7: every entry for which the capability's answer was accepted has, in the
\* list handed to the assembler, the Success result holding that answer,
\* whatever happened to the other entries of the batch.
C7_FailureIsolated ==
    pc = "assemble" =>
        \A k \in 1..Len(translated) :
            translated[k].ok =>
                \E r \in 1..Len(converted_files) :
                    /\ origin[r] = [src |-> k, kind |-> "success"]
                    /\ converted_files[r][2] = translated[k].code

\* C8 as stated: every entry gets between 1 and 3 calls, no call follows a
\* non-empty answer, and the result is a Fallback exactly when 3 calls failed
\* (raised or answered empty).
C8_AsStated ==
    /\ calls <= 3
    /\ pc = "invoke" => last \in {"none", "error", "empty"}
    /\ ResultProduced =>
          /\ calls >= 1
          /\ origin[Len(origin)].kind # "success" <=> (calls = 3 /\ last \in {"error", "empty"})

\* C8 amended: an entry whose staged file was read gets between 1 and 3 calls
\* (an unreadable one gets none); no call follows an answer that was accepted,
\* a call follows each of the first two answers that were not (the call
\* raised, the answer was empty, or it was a lone fence line whose clean-up
\* raises); and _convert_single_file gives a Fallback exactly when the third
\* call failed too.
C8_BoundedAttempts ==
    /\ calls <= 3
    /\ pc = "handler" => calls = 0
    /\ pc = "invoke" =>
          /\ calls = attempt /\ calls < 3
          /\ last \in {"none", "error", "empty", "rejected"}
          /\ (calls = 0 <=> last = "none")
    /\ (ResultProduced /\ origin[Len(origin)].kind \in {"success", "fallback"}) =>
          /\ calls \in 1..3
          /\ origin[Len(origin)].kind = "success" <=> last = "accepted"
          /\ origin[Len(origin)].kind = "fallback"
                <=> (calls = 3 /\ last \in {"error", "empty", "rejected"})

C8_Witness ==
    /\ ResultProduced
    /\ origin[Len(origin)].kind = "success"
    /\ calls = 3
    /\ Len(origin) = 2
    /\ origin[1].kind = "fallback"

\* C9: a call answered with an empty response has the effect of a call that
\* raised: before the last attempt the loop sleeps retry_delay, doubles it and
\* calls again, nothing being appended; on the last attempt the entry's result
\* is the one _fallback_conversion builds.
C9_EmptyLikeFailure ==
    [][(pc = "invoke" /\ calls' = calls + 1 /\ last' \in {"empty", "error"}) =>
          IF attempt < 2
          THEN /\ pc' = "invoke"
               /\ attempt' = attempt + 1
               /\ sleeps' = Append(sleeps, retry_delay)
               /\ retry_delay' = 2 * retry_delay
               /\ converted_files' = converted_files
               /\ i' = i
          ELSE /\ pc' = "convert"
               /\ i' = i + 1
               /\ Len(converted_files') = Len(converted_files) + 1
               /\ origin'[Len(origin')] = [src |-> i, kind |-> "fallback"]
               /\ EndsWith(converted_files'[Len(converted_files')][2], source_code)
               /\ Head(converted_files'[Len(converted_files')][2]) = "// CONVERSION ERROR: "
      ]_vars

C9_Witness ==
    /\ ResultProduced
    /\ last = "empty"
    /\ calls = 3
    /\ sleeps = <<2, 4>>
    /\ origin[Len(origin)].kind = "fallback"

MetCorruptArchive ==
    \E k \in 1..Len(valid_files) : k < u /\ valid_files[k].corrupt

\* C10 as stated: once the upload loop has met a corrupt archive, the request
\* converts nothing and leaves no artifact: the converter is not entered, there
\* is no result, no file in CONVERTED_FOLDER and no redirect to the preview.
C10_AsStated ==
    MetCorruptArchive =>
        /\ pc \notin {"convert", "invoke", "handler", "app_fallback", "assemble"}
        /\ converted_files = <<>>
        /\ converted_dir = <<>>
        /\ response # "preview"

\* the relative paths a request can get from its uploads that are not corrupt
\* archives
HealthyPaths ==
    UNION {IF EndsWith(Lower(secure_filename(valid_files[k].filename)), <<".", "z", "i", "p">>)
           THEN IF valid_files[k].corrupt THEN {}
                ELSE {valid_files[k].entries[j].name : j \in 1..Len(valid_files[k].entries)}
           ELSE {secure_filename(valid_files[k].filename)}
           : k \in 1..Len(valid_files)}

\* C10 amended: a corrupt archive yields no partial classification (none of
\* its entries is staged, handed to the converter or preserved) and an error
\* is flashed; the loop goes on with the other uploads, and the request ends
\* on the form, with nothing converted and no artifact, when every valid
\* upload is a corrupt archive.
C10_CorruptArchiveContained ==
    /\ MetCorruptArchive => "error" \in Range(flashes)
    /\ \A k \in 1..Len(all_extracted_files) : all_extracted_files[k][2] \in HealthyPaths
    /\ \A k \in 1..Len(preserve_files_req) : preserve_files_req[k][2] \in HealthyPaths
    /\ (valid_files # <<>> /\ \A k \in 1..Len(valid_files) : valid_files[k].corrupt) =>
          /\ pc \in {"upload_loop", "done"}
          /\ ntemp = 0
          /\ calls = 0 /\ converted_files = <<>> /\ converted_dir = <<>>
          /\ response # "preview"
          /\ pc = "done" => (response = "index" /\ Len(flashes) = Len(valid_files) + 1)

C10_Witness ==
    /\ pc = "done"
    /\ Len(valid_files) = 2
    /\ valid_files[1].corrupt /\ valid_files[2].corrupt
    /\ response = "index"

BatchDispatched == pc \in {"convert", "invoke", "handler", "app_fallback", "assemble"}

\* C12: with conversion_type logic_only, every entry of the batch handed to the
\* converter ends in .java, .kt or .swift or has "layout" in its path, and none
\* ends in .xml unless its path has "layout" in it.
C12_LogicOnlyFilter ==
    (conversion_type = "logic_only" /\ BatchDispatched) =>
        \A k \in 1..Len(all_extracted_files) :
            LET p == Lower(all_extracted_files[k][2])
            IN  /\ EndsWith(p, <<".", "x", "m", "l">>) => Contains(p, <<"l", "a", "y", "o", "u", "t">>)
                /\ \/ EndsWith(p, <<".", "j", "a", "v", "a">>)
                   \/ EndsWith(p, <<".", "k", "t">>)
                   \/ EndsWith(p, <<".", "s", "w", "i", "f", "t">>)
                   \/ Contains(p, <<"l", "a", "y", "o", "u", "t">>)

\* a .xml file without "layout" in its path was staged and is not in the batch
C12_Witness ==
    /\ conversion_type = "logic_only"
    /\ pc = "invoke"
    /\ \E path \in DOMAIN fs :
          /\ EndsWith(Lower(path.rel), <<".", "x", "m", "l">>)
          /\ ~Contains(Lower(path.rel), <<"l", "a", "y", "o", "u", "t">>)
          /\ \A k \in 1..Len(all_extracted_files) : all_extracted_files[k][1] # path

\* the request ended with an artifact: the file written to CONVERTED_FOLDER
\* under output_filename
Returned == pc = "done" /\ response = "preview"
Artifact == converted_dir[output_filename]

\* the upload is handled as an archive (line 89)
IsArchiveUpload(f) == EndsWith(Lower(secure_filename(f.filename)), <<".", "z", "i", "p">>)

\* C13: of the requests that end with an artifact, one whose only input is one
\* non-archive file gets a single file, and one whose conversion results and
\* preserve entries together number two or more gets an archive.
C13_ArtifactShape ==
    Returned =>
        /\ (Len(valid_files) = 1 /\ ~IsArchiveUpload(valid_files[1])) =>
              Artifact.kind = "file"
        /\ Len(converted_files) + Len(preserve_files_req) >= 2 =>
              Artifact.kind = "zip"

\* the <<name, bytes>> pairs of the entries of the archives the request
\* uploaded and could open
InputEntries ==
    UNION {IF IsArchiveUpload(valid_files[k]) /\ ~valid_files[k].corrupt
           THEN {<<valid_files[k].entries[j].name, valid_files[k].entries[j].data>> :
                    j \in 1..Len(valid_files[k].entries)}
           ELSE {}
           : k \in 1..Len(valid_files)}

\* the members create_zip wrote after those of the conversion results
PreservedMembers ==
    SubSeq(Artifact.content, Len(converted_files) + 1, Len(Artifact.content))

C15_AllOrNothing ==
    pc = "done" =>
        /\ response = "index" => converted_dir = <<>>
        /\ (response = "preview" /\ Artifact.kind = "zip") =>
              Len(Artifact.content) = Len(converted_files) + Len(preserve_files_req)

\* C16: every result convert_files has appended, the ones of its exception
\* handler included, is named by the entry's relative path with its extension
\* replaced by the canonical extension of the target platform, directory part
\* and base name unchanged.
C16_RemappedNames ==
    \A r \in 1..Len(converted_files) :
        origin[r].kind \in {"success", "fallback", "error_comment"} =>
            LET relative_path == all_extracted_files[origin[r].src][2]
            IN  /\ converted_files[r][1] =
                      SplitExt(relative_path)[1] \o extension_map(target_platform)
                /\ DirPart(converted_files[r][1]) = DirPart(relative_path)

\* C17: every archive artifact returned has a name that ends with the archive
\* extension, so that download_converted serves it as an archive.
C17_ArchiveNamedAsArchive ==
    (Returned /\ Artifact.kind = "zip") =>
        /\ EndsWith(Lower(output_filename), <<".", "z", "i", "p">>)
        /\ download_mimetype(output_filename) = "application/zip"

\* C18: every single-file artifact returned is named by the base name of the
\* one input entry, its extension replaced by the canonical extension of the
\* target platform, without any prefix and without a directory part.
C18_SingleFileName ==
    (Returned /\ Artifact.kind = "file") =>
        /\ output_filename =
              SplitExt(Basename(all_extracted_files[1][2]))[1] \o extension_map(target_platform)
        /\ ~Contains(output_filename, <<"/">>)

(* ------------------ properties of concurrent requests ----------------- *)
\* the texts the request itself uploaded for a staged path
OwnTexts(path) ==
    IF path.dir = 0
    THEN {valid_files[k].data : k \in {j \in 1..Len(valid_files) :
                                          secure_filename(valid_files[j].filename) = path.rel}}
    ELSE {e[2] : e \in {x \in InputEntries : x[1] = path.rel}}

\* C19: whatever the interleaving with a second request, every staged file of
\* the request's batch holds text the request itself uploaded, the text read
\* for the entry being converted is the request's own, and the artifact the
\* request returns is the one it wrote from its own results.
C19_RequestsIsolated ==
    /\ \A k \in 1..Len(all_extracted_files) :
          all_extracted_files[k][1] \in DOMAIN fs =>
              fs[all_extracted_files[k][1]] \in OwnTexts(all_extracted_files[k][1])
    /\ pc = "invoke" => source_code \in OwnTexts(all_extracted_files[i][1])
    /\ Returned =>
          IF Artifact.kind = "file"
          THEN Artifact.content = converted_files[1][2]
          ELSE SubSeq(Artifact.content, 1, Len(converted_files)) = converted_files

(* --------------- properties of the orchestrator, continued ------------ *)
\* 2^n
RECURSIVE Pow2(_)
Pow2(n) == IF n = 0 THEN 1 ELSE 2 * Pow2(n - 1)

\* the sum of a sequence of numbers
RECURSIVE Sum(_)
Sum(s) == IF s = <<>> THEN 0 ELSE Head(s) + Sum(Tail(s))

\* C21: within one entry the k-th backoff wait is 2 * 2^(k-1): 2 after the
\* first failed attempt, 4 after the second, none after the third; an entry
\* starts again with a delay of 2, and the waits of one entry sum to 6 at most.
C21_BackoffSchedule ==
    /\ Len(sleeps) <= 2
    /\ \A k \in 1..Len(sleeps) : sleeps[k] = 2 * Pow2(k - 1)
    /\ Sum(sleeps) <= 6
    /\ pc = "invoke" =>
          /\ Len(sleeps) = calls
          /\ retry_delay = 2 * Pow2(calls)
    /\ (ResultProduced /\ origin[Len(origin)].kind = "fallback") => sleeps = <<2, 4>>
    /\ pc = "handler" => (sleeps = <<>> /\ retry_delay = 2)

\* the second entry of a batch waits 2 after its first failure although the
\* first entry went through both of its waits
C21_Witness ==
    /\ pc = "invoke"
    /\ i = 2
    /\ origin = <<[src |-> 1, kind |-> "fallback"]>>
    /\ sleeps = <<2>>
    /\ retry_delay = 4

(* ------------- properties of the skip predicate, continued ------------ *)
\* a rule of _should_skip_file other than the depth rule matches the path
OtherSkipRuleTable ==
    [p \in PoolNames |->
        \/ ExactNameMatch(Basename(Lower(p)))
        \/ \E k \in 1..Len(skip_patterns) : PatternMatch(Lower(p), skip_patterns[k])
        \/ SuspiciousMatch(Lower(p))]

\* the number of segments of a path: one more than its separators
Segments(p) == Count(p, "/") + 1

\* C22: when the scan is over, an entry that no other skip rule matches is in
\* skipped_files exactly when its path has more than 6 segments: one of 7
\* segments is skipped, one of 6 segments is not.
C22_DepthRule ==
    pc = "classified" =>
        \A k \in NonDirEntries :
            ~OtherSkipRuleTable[file_list[k].name] =>
                (file_list[k].name \in Range(skipped_files)
                    <=> Segments(file_list[k].name) > 6)

(* --------------- properties of the classifier, continued -------------- *)
\* the bytes are UTF-8 text
DecodesAsText(bytes) == \A k \in 1..Len(bytes) : bytes[k] \notin InvalidBytes

\* C23: when the scan is over, every non-skipped entry with a code extension
\* of the platform is either a code entry or recorded in error_files, never
\* both; one whose size is zero or whose bytes do not decode as text is in
\* error_files and is not a code entry.
C23_BadEntriesRecorded ==
    pc = "classified" =>
        \A k \in NonDirEntries :
            LET e == file_list[k]
            IN  (~Skip(e.name) /\ CodeExt(e.name, source_platform)) =>
                  /\ e.name \in Range(CodePaths) <=> e.name \notin Range(ErrorPaths)
                  /\ (Len(e.data) = 0 \/ ~DecodesAsText(e.data)) =>
                        e.name \in Range(ErrorPaths)

(* --------------- properties of the orchestrator, continued ------------ *)
\* convert_files is working on its batch
Converting == pc \in {"convert", "invoke", "handler"}

\* the k-th entry has its result in the list of results
Terminal(k) == \E r \in 1..Len(origin) : origin[r].src = k

\* the k-th entry has exactly one result
TerminalOnce(k) == Cardinality({r \in 1..Len(origin) : origin[r].src = k}) = 1

\* every entry of the batch has exactly one result
AllTerminal == \A k \in 1..Len(all_extracted_files) : TerminalOnce(k)

\* C24: the capability is called only for the entry the loop is at, whose
\* predecessors all have their result and which has none yet (one entry at a
\* time, in input order, never a terminal one); an entry that has its result
\* keeps it; and once convert_files has started on a batch, every entry of the
\* batch eventually has exactly one result.
C24_EntryLifecycle ==
    /\ [][/\ calls' = calls + 1 =>
               /\ pc = "invoke"
               /\ \A k \in 1..(i - 1) : TerminalOnce(k)
               /\ ~Terminal(i)
          /\ \A k \in 1..Len(all_extracted_files) : TerminalOnce(k) => TerminalOnce(k)'
         ]_vars
    /\ Converting ~> AllTerminal

(* ------------------- properties of single functions ------------------- *)
\* the answer of the call was a text, and the attempt is over
AttemptOver == call.fn = "attempt" /\ call.returned /\ call.answer.kind = "text"

\* the response after the trimming of surrounding whitespace, and its lines
Trimmed == Strip(call.answer.text)
TrimmedLines == SplitLines(Trimmed)

\* the line is a code fence; the line starts with one
IsFenceLine(l) == Strip(l) = Fence
StartsWithFence(l) == StartsWith(l, Fence)

\* C25 as stated: for every non-empty response the attempt returns a Success
\* content: the lines strictly between the first and the last line when the
\* first starts with a fence and the last is a fence, the lines after the
\* first when only the first is a fence, the trimmed response itself when it
\* does not start with a fence; and the content never begins with a fence.
C25_AsStated ==
    (AttemptOver /\ call.answer.text # <<>>) =>
        /\ call.result.ok
        /\ call.result.code =
              IF ~StartsWithFence(TrimmedLines[1]) THEN Trimmed
              ELSE IF IsFenceLine(TrimmedLines[Len(TrimmedLines)])
              THEN JoinLines(SubSeq(TrimmedLines, 2, Len(TrimmedLines) - 1))
              ELSE JoinLines(SubSeq(TrimmedLines, 2, Len(TrimmedLines)))
        /\ ~StartsWithFence(call.result.code)

\* C25 amended: a non-empty response that, once trimmed, is one line starting
\* with a fence makes the attempt fail; any other non-empty response is
\* returned: unchanged when it does not start with a fence, else without its
\* first line, and without its last line too when that is a fence; the
\* content begins with a fence only when the second line of the response did.
C25_FenceStripping ==
    (AttemptOver /\ call.answer.text # <<>>) =>
        IF StartsWithFence(TrimmedLines[1]) /\ Len(TrimmedLines) = 1
        THEN ~call.result.ok
        ELSE /\ call.result.ok
             /\ call.result.code =
                   IF ~StartsWithFence(TrimmedLines[1]) THEN Trimmed
                   ELSE IF IsFenceLine(TrimmedLines[Len(TrimmedLines)])
                   THEN JoinLines(SubSeq(TrimmedLines, 2, Len(TrimmedLines) - 1))
                   ELSE JoinLines(SubSeq(TrimmedLines, 2, Len(TrimmedLines)))
             /\ StartsWithFence(call.result.code) =>
                   /\ StartsWithFence(TrimmedLines[1])
                   /\ StartsWithFence(TrimmedLines[2])

\* a response of three lines, wrapped in a tagged fence and a closing fence
C25_Witness ==
    /\ AttemptOver
    /\ Len(TrimmedLines) = 3
    /\ TrimmedLines[1] = Fence \o <<"s">>
    /\ IsFenceLine(TrimmedLines[3])
    /\ call.result.ok
    /\ call.result.code = <<"o", "k">>

\* C28: an attempt that returns a Success content returns a non-empty one,
\* whatever the response (whitespace only, an opening and a closing fence
\* with nothing between them).
C28_SuccessNotEmpty ==
    (call.fn = "attempt" /\ call.returned /\ call.result.ok) => call.result.code # <<>>

\* C27: the results of two entries with distinct relative paths are written
\* under distinct names.
C27_DistinctOutputNames ==
    (call.fn = "remap" /\ call.returned) => call.result[1] # call.result[2]

(* ----------------- properties of the request, continued --------------- *)
\* the entries a conversion type keeps, by their lower-cased relative path
KeptAsSpecified(ct, f) ==
    LET p == Lower(f[2])
    IN  CASE ct = "full_project" -> TRUE
          [] ct = "layouts_only" ->
                EndsWith(p, <<".", "x", "m", "l">>) \/ Contains(p, <<"l", "a", "y", "o", "u", "t">>)
          [] ct = "logic_only" ->
                \/ EndsWith(p, <<".", "j", "a", "v", "a">>)
                \/ EndsWith(p, <<".", "k", "t">>)
                \/ EndsWith(p, <<".", "s", "w", "i", "f", "t">>)

====
